---- MODULE Spec2Model ----
(***************************************************************************)
(* Model of aggregate_payments.py (BPY331 payment aggregation) and of the   *)
(* check-digit helpers of test_account_ref.py.                               *)
(*                                                                           *)
(* A text value is a sequence of one-character strings.  Where the code     *)
(* never looks inside a run of characters (a payee name, a date stamp) the  *)
(* run is one element of the sequence; quotes, spaces, hyphens, digits and  *)
(* the decimal point are always single elements.                            *)
(***************************************************************************)
EXTENDS Integers, Sequences, FiniteSets, TLC

\* ------------------------------------------------------------------ text

Q == "\""
SP == " "
Digits == <<"0", "1", "2", "3", "4", "5", "6", "7", "8", "9">>
DigitChars == {Digits[i] : i \in 1..10}
Letters == <<"A", "B", "C", "D", "E", "F", "G", "H", "I", "J", "K", "L", "M",
             "N", "O", "P", "Q", "R", "S", "T", "U", "V", "W", "X", "Y", "Z">>

Range(s) == {s[i] : i \in DOMAIN s}

\* str.replace(c, '') for each c of chars
Remove(s, chars) == SelectSeq(s, LAMBDA c : c \notin chars)

\* s[1:-k]
Inner(s, k) == SubSeq(s, 2, Len(s) - k)

\* s[:2] and s[2:]
Take2(s) == SubSeq(s, 1, IF Len(s) < 2 THEN Len(s) ELSE 2)
Drop2(s) == SubSeq(s, 3, Len(s))

\* int(c) of one digit character
DigitVal(c) == CHOOSE n \in 0..9 : Digits[n + 1] = c

\* whether int(s) succeeds, for s without sign or blanks
IsNumeral(s) == Len(s) > 0 /\ \A i \in DOMAIN s : s[i] \in DigitChars

\* int(s) of a numeral
RECURSIVE NumeralVal(_)
NumeralVal(s) ==
    IF Len(s) = 0 THEN 0
    ELSE 10 * NumeralVal(SubSeq(s, 1, Len(s) - 1)) + DigitVal(s[Len(s)])

\* str(n) of a natural number
RECURSIVE NatStr(_)
NatStr(n) ==
    IF n < 10 THEN <<Digits[n + 1]>>
    ELSE NatStr(n \div 10) \o <<Digits[(n % 10) + 1]>>

RECURSIVE SumSeq(_)
SumSeq(s) == IF Len(s) = 0 THEN 0 ELSE s[1] + SumSeq(Tail(s))

RECURSIVE Reverse(_)
Reverse(s) == IF Len(s) = 0 THEN <<>> ELSE Reverse(Tail(s)) \o <<s[1]>>

\* ''.join(str(n) for n in nums), then int(dig) of each character
RECURSIVE SplitDigits(_)
SplitDigits(nums) ==
    IF Len(nums) = 0 THEN <<>>
    ELSE LET ds == NatStr(nums[1])
         IN [i \in 1..Len(ds) |-> DigitVal(ds[i])] \o SplitDigits(Tail(nums))

\* num * 2 if index % 2 != 0 else num, index counted from zero
DoubleOdd(nums) ==
    [i \in 1..Len(nums) |-> IF (i - 1) % 2 # 0 THEN nums[i] * 2 ELSE nums[i]]

\* ------------------------------------------------- account reference

\* variant without the "if checkdig == 10" step
CheckDigNoWrap(sort_code) ==
    LET bare == Remove(sort_code, {"-"})
        sort_digits == [i \in 1..Len(bare) |-> DigitVal(bare[i])]
        doubles == SplitDigits(DoubleOdd(sort_digits))
    IN 10 - (SumSeq(doubles) % 10)

\* the check digit computed in gen_account_ref
CheckDig(sort_code) ==
    LET bare == Remove(sort_code, {"-"})
        sort_digits == [i \in 1..Len(bare) |-> DigitVal(bare[i])]
        doubles == SplitDigits(DoubleOdd(sort_digits))
        checkdig == 10 - (SumSeq(doubles) % 10)
    IN IF checkdig = 10 THEN 0 ELSE checkdig

\* the A-Z character computed in gen_account_ref
ModChar(account_num) ==
    LET mod_digs == NumeralVal(Take2(account_num)) % 26
    IN IF mod_digs = 0 THEN "A" ELSE Letters[mod_digs]

\* whether gen_account_ref returns rather than raising ValueError
RefComputable(sort_code, account_num) ==
    /\ \A c \in Range(Remove(sort_code, {"-"})) : c \in DigitChars
    /\ IsNumeral(Take2(account_num))

gen_account_ref(sort_code, account_num) ==
    <<Q, ModChar(account_num)>> \o Drop2(account_num)
        \o NatStr(CheckDig(sort_code)) \o <<Q>>

\* test_account_ref.generate_check_digit: the digits of the number returned.
\* int(str) then str(int) drops leading zeros
RECURSIVE DropLeadingZeros(_)
DropLeadingZeros(ds) ==
    IF Len(ds) > 1 /\ ds[1] = "0" THEN DropLeadingZeros(Tail(ds)) ELSE ds

generate_check_digit(sort_code) ==
    LET bare == Remove(sort_code, {"-"})
        sort_code_ints == [i \in 1..Len(bare) |-> DigitVal(bare[i])]
        ints_mult == SplitDigits(DoubleOdd(sort_code_ints))
        check_digit == 10 - (SumSeq(ints_mult) % 10)
    IN DropLeadingZeros(bare \o NatStr(IF check_digit = 10 THEN 0 ELSE check_digit))

\* test_account_ref.verify_check_digit, on the digits of its argument
verify_check_digit(number) ==
    LET reversed_list == Reverse([i \in 1..Len(number) |-> DigitVal(number[i])])
        rev_mult == SplitDigits(DoubleOdd(reversed_list))
    IN SumSeq(rev_mult) % 10 = 0

\* ------------------------------------------------------------- Payment

\* the run's date stamp, formatted once per run
SYSTIME == "06-NOV-2026"

\* the attributes of a Payment in the order of its __dict__, 'defaults' left out
FieldOrder ==
    <<"interface_source", "batch_run_id", "posting_ref", "account_ref",
      "payee_type", "payee_name", "payee_address", "claim_ref",
      "claimant_name", "claimant_adddress", "amount", "posting_start_date",
      "posting_end_date", "payment_method", "creditor_account_ref",
      "bank_sort_code", "bank_account_num", "bank_account_name",
      "building_society_num", "post_office_name", "post_office_address",
      "collection_flag", "document_num", "document_type", "replacement_flag",
      "effective_date", "blank_one", "blank_two", "document_date">>

FieldNames == Range(FieldOrder)

Defaults ==
    [k \in FieldNames |->
        CASE k = "interface_source" -> <<Q, "BEN", Q>>
          [] k = "batch_run_id" -> <<Q, "batch_run_id", Q>>
          [] k = "posting_ref" -> <<Q, "posting_ref", Q>>
          [] k = "account_ref" -> <<Q, "NOT_YET_SET", Q>>
          [] k = "payee_type" -> <<Q, "CL", Q>>
          [] k = "payee_name" -> <<Q, "payee_name", Q>>
          [] k = "payee_address" -> <<Q, "payee_address", Q>>
          [] k = "claim_ref" -> <<Q, "claim_ref", Q>>
          [] k = "claimant_name" -> <<Q, "Aggregated DHP UC Payment", Q>>
          [] k = "claimant_adddress" -> <<Q, "Aggregated DHP UC Payment", Q>>
          [] k = "amount" -> <<Q, "amount", Q>>
          [] k = "posting_start_date" -> <<Q, SYSTIME, Q>>
          [] k = "posting_end_date" -> <<Q, SYSTIME, Q>>
          [] k = "payment_method" -> <<Q, "BACS", Q>>
          [] k = "bank_sort_code" -> <<Q, "bank_sort_code", Q>>
          [] k = "bank_account_num" -> <<Q, "bank_account_num", Q>>
          [] k = "bank_account_name" -> <<Q, "bank_account_name", Q>>
          [] k = "building_society_num" -> <<Q, "building_society_num", Q>>
          [] k \in {"collection_flag", "replacement_flag"} -> <<Q, "N", Q>>
          [] k = "effective_date" -> <<Q, SYSTIME, Q>>
          [] OTHER -> <<Q, Q>>]

\* Payment(**kwargs): the defaults, overridden by the keyword arguments
Payment(kwargs) ==
    [k \in FieldNames |-> IF k \in DOMAIN kwargs THEN kwargs[k] ELSE Defaults[k]]

\* the literal the building society number is compared with: '"0" '
BankLiteral == <<Q, "0", Q, SP>>

set_account_ref(p, orig_ref, orig_claim) ==
    LET sort_code == Remove(p.bank_sort_code, {Q, SP})
        account_num == Remove(p.bank_account_num, {Q, SP})
        account_ref == gen_account_ref(sort_code, account_num)
    IN IF p.building_society_num = BankLiteral
       THEN [p EXCEPT !.account_ref = account_ref, !.claim_ref = account_ref]
       ELSE [p EXCEPT !.account_ref = orig_ref, !.claim_ref = orig_claim]

\* whether set_account_ref returns rather than raising
SetRefOk(p) ==
    p.building_society_num = BankLiteral =>
        RefComputable(Remove(p.bank_sort_code, {Q, SP}),
                      Remove(p.bank_account_num, {Q, SP}))

\* --------------------------------------------------------- the parser

\* each record is 29 lines long
BlockSize == 29

\* records[j], j counted from zero
At(records, j) == records[j + 1]

\* range(1, len(records), 29)
BlockStarts(records) ==
    {i \in 1..(Len(records) - 1) : (i - 1) % BlockSize = 0}

\* the Payment(...) call of create_payments for the block starting at line i
RawPayment(records, i) ==
    Payment([batch_run_id |-> At(records, i + 1),
             posting_ref |-> At(records, i + 2),
             payee_name |-> At(records, i + 17),
             payee_address |-> At(records, i + 6),
             amount |-> At(records, i + 10),
             bank_sort_code |-> At(records, i + 15),
             bank_account_num |-> At(records, i + 16),
             bank_account_name |-> At(records, i + 17),
             building_society_num |-> At(records, i + 18)])

\* whether create_payments returns: no index past the end, no ValueError
ParseOk(records) ==
    \A i \in BlockStarts(records) :
        /\ i + 18 < Len(records)
        /\ SetRefOk(RawPayment(records, i))

\* variant that reads the payee address one line early
CreatePaymentsShifted(records) ==
    LET n == Cardinality(BlockStarts(records))
    IN [b \in 1..n |->
            LET i == 1 + (b - 1) * BlockSize
                p == RawPayment(records, i)
            IN set_account_ref([p EXCEPT !.payee_address = At(records, i + 5)],
                               At(records, i + 3), At(records, i + 7))]

create_payments(records) ==
    LET n == Cardinality(BlockStarts(records))
    IN [b \in 1..n |->
            LET i == 1 + (b - 1) * BlockSize
            IN set_account_ref(RawPayment(records, i),
                               At(records, i + 3), At(records, i + 7))]

\* ------------------------------------------------------ the aggregator

\* the key string built in create_keys and in assign_keys
PaymentKey(p) ==
    Inner(p.account_ref, 1) \o <<"/">> \o Inner(p.building_society_num, 2)

\* the keys of {k: [] for k in keys}, in insertion order
RECURSIVE Distinct(_)
Distinct(s) ==
    IF Len(s) = 0 THEN <<>>
    ELSE LET init == Distinct(SubSeq(s, 1, Len(s) - 1))
             last == s[Len(s)]
         IN IF last \in Range(init) THEN init ELSE Append(init, last)

\* a dict as the sequence of its items in insertion order
create_keys(ps) ==
    LET ks == Distinct([i \in 1..Len(ps) |-> PaymentKey(ps[i])])
    IN [i \in 1..Len(ks) |-> [key |-> ks[i], val |-> <<>>]]

\* variant without the "if key == payment_key" test
AssignKeysAll(ps, keys) ==
    [i \in 1..Len(keys) |-> [key |-> keys[i].key, val |-> keys[i].val \o ps]]

assign_keys(ps, keys) ==
    [i \in 1..Len(keys) |->
        [key |-> keys[i].key,
         val |-> keys[i].val
                   \o SelectSeq(ps, LAMBDA p : PaymentKey(p) = keys[i].key)]]

\* the text of an amount with quotes and blanks removed, split at the point
WholePart(t) ==
    IF "." \in Range(t)
    THEN SubSeq(t, 1, (CHOOSE i \in DOMAIN t :
                          t[i] = "." /\ \A j \in 1..(i - 1) : t[j] # ".") - 1)
    ELSE t
FracPart(t) ==
    IF "." \in Range(t)
    THEN SubSeq(t, (CHOOSE i \in DOMAIN t :
                       t[i] = "." /\ \A j \in 1..(i - 1) : t[j] # ".") + 1, Len(t))
    ELSE <<>>

\* whether float(amount) succeeds, for amounts of at most two decimals
IsAmount(amount) ==
    LET t == Remove(amount, {Q, SP})
    IN /\ \A c \in Range(WholePart(t)) \cup Range(FracPart(t)) : c \in DigitChars
       /\ Len(WholePart(t)) + Len(FracPart(t)) > 0
       /\ Len(FracPart(t)) <= 2

\* float(amount), in pence
Pence(amount) ==
    LET t == Remove(amount, {Q, SP})
        frac == FracPart(t)
    IN 100 * NumeralVal(WholePart(t))
       + (IF Len(frac) = 0 THEN 0
          ELSE IF Len(frac) = 1 THEN 10 * DigitVal(frac[1])
          ELSE NumeralVal(frac))

\* '"{:.2f}"'.format(total), total in pence
FormatTotal(total) ==
    <<Q>> \o NatStr(total \div 100)
          \o <<".", Digits[((total % 100) \div 10) + 1], Digits[(total % 10) + 1]>>
          \o <<Q>>

Total(ps) == SumSeq([i \in 1..Len(ps) |-> Pence(ps[i].amount)])

\* the aggregate built from one dict value
Aggregate(ps) ==
    Payment([batch_run_id |-> ps[1].batch_run_id,
             posting_ref |-> ps[1].posting_ref,
             account_ref |-> ps[1].account_ref,
             payee_name |-> ps[1].payee_name,
             payee_address |-> ps[1].payee_address,
             claim_ref |-> ps[1].claim_ref,
             amount |-> FormatTotal(Total(ps)),
             bank_sort_code |-> ps[1].bank_sort_code,
             bank_account_num |-> ps[1].bank_account_num,
             bank_account_name |-> ps[1].bank_account_name,
             building_society_num |-> ps[1].building_society_num])

\* whether sum_payments returns rather than raising
SumOk(keys_vals) ==
    \A i \in DOMAIN keys_vals :
        /\ Len(keys_vals[i].val) > 0
        /\ \A j \in DOMAIN keys_vals[i].val : IsAmount(keys_vals[i].val[j].amount)

\* variant that takes the other fields from the last member of the group
SumPaymentsLast(keys_vals) ==
    [i \in 1..Len(keys_vals) |->
        LET ps == keys_vals[i].val
        IN [Aggregate(<<ps[Len(ps)]>>) EXCEPT !.amount = FormatTotal(Total(ps))]]

sum_payments(keys_vals) ==
    [i \in 1..Len(keys_vals) |-> Aggregate(keys_vals[i].val)]

\* the lines write_payments writes for one payment
PaymentLines(p) == [i \in 1..Len(FieldOrder) |-> p[FieldOrder[i]]]

RECURSIVE AllLines(_)
AllLines(ps) ==
    IF Len(ps) = 0 THEN <<>> ELSE PaymentLines(ps[1]) \o AllLines(Tail(ps))

\* ------------------------------------------------------ the run's state

VARIABLES
    fs,            \* the directory: path -> the file's lines
    mtime,         \* path -> time of last modification, in minutes
    now,           \* the clock, in minutes
    checked,       \* the lines of already_checked.log
    paylog,        \* the entries of payments.log
    backup,        \* the archive directory: path -> lines of the copy
    sent,          \* the e-mails sent
    pc,            \* where the run stands
    f,             \* the path load_files returned
    payments,      \* the list create_payments returned
    keys,          \* the dict create_keys returned, filled by assign_keys
    new_payments,  \* the list sum_payments returned
    header,        \* write_payments: the header line read back
    count,         \* write_payments: payments written so far
    failed,        \* the step at which the run raised, "" if none
    runs,          \* runs started so far
    snap,          \* history: fs, checked and backup when the run started
    sort_in,       \* check digit: the sort code given
    acct_in,       \* check digit: the account number given
    ref_out,       \* check digit: what gen_account_ref returned
    num_out,       \* check digit: what generate_check_digit returned
    ver_out        \* check digit: what verify_check_digit returned

runVars == <<pc, f, payments, keys, new_payments, header, count, failed>>
diskVars == <<fs, mtime, checked, paylog, backup, sent>>
refVars == <<sort_in, acct_in, ref_out, num_out, ver_out>>
vars == <<fs, mtime, now, checked, paylog, backup, sent, pc, f, payments, keys,
          new_payments, header, count, failed, runs, snap,
          sort_in, acct_in, ref_out, num_out, ver_out>>

\* ------------------------------------------------------------- bounds

MaxRuns == 2
MaxTicks == 1
MaxRecords == 3

\* timedelta(minutes=5)
Window == 5

\* ------------------------------------------------------- file selection

NoPath == <<>>

\* file.startswith('bpy331_') and file.endswith('.dat')
NameMatches(path) == path[1] = "bpy331_" /\ path[Len(path)] = ".dat"

\* the files that pass the tests of name and of modification time
Candidates ==
    {p \in DOMAIN fs : NameMatches(p) /\ mtime[p] > now - Window}

\* variant that forgets the log
EligibleIgnoringLog == Candidates

\* the files load_files appends to files_list
Eligible == {p \in Candidates : p \notin Range(checked)}

\* load_files: the newest eligible file, or ValueError from max([])
LoadFiles ==
    /\ pc = "start"
    /\ IF Eligible = {}
       THEN /\ pc' = "noeligible"
            /\ f' = f
       ELSE /\ pc' = "loaded"
            /\ f' \in {p \in Eligible : \A q \in Eligible : mtime[q] <= mtime[p]}
    /\ UNCHANGED <<payments, keys, new_payments, header, count, failed>>
    /\ UNCHANGED <<diskVars, now, runs, snap, refVars>>

\* except ValueError: the time stamp goes to payments.log, then sys.exit(1)
LogMarker ==
    /\ pc = "noeligible"
    /\ paylog' = Append(paylog, [kind |-> "marker"])
    /\ pc' = "exited"
    /\ UNCHANGED <<f, payments, keys, new_payments, header, count, failed>>
    /\ UNCHANGED <<fs, mtime, checked, backup, sent, now, runs, snap, refVars>>

\* ------------------------------------------------------- the pipeline

CreatePayments ==
    /\ pc = "loaded"
    /\ IF ParseOk(fs[f])
       THEN /\ payments' = create_payments(fs[f])
            /\ pc' = "parsed"
            /\ failed' = failed
       ELSE /\ payments' = payments
            /\ pc' = "crashed"
            /\ failed' = "create_payments"
    /\ UNCHANGED <<f, keys, new_payments, header, count>>
    /\ UNCHANGED <<diskVars, now, runs, snap, refVars>>

CreateKeys ==
    /\ pc = "parsed"
    /\ keys' = create_keys(payments)
    /\ pc' = "keyed"
    /\ UNCHANGED <<f, payments, new_payments, header, count, failed>>
    /\ UNCHANGED <<diskVars, now, runs, snap, refVars>>

AssignKeys ==
    /\ pc = "keyed"
    /\ keys' = assign_keys(payments, keys)
    /\ pc' = "assigned"
    /\ UNCHANGED <<f, payments, new_payments, header, count, failed>>
    /\ UNCHANGED <<diskVars, now, runs, snap, refVars>>

SumPayments ==
    /\ pc = "assigned"
    /\ IF SumOk(keys)
       THEN /\ new_payments' = sum_payments(keys)
            /\ pc' = "summed"
            /\ failed' = failed
       ELSE /\ new_payments' = new_payments
            /\ pc' = "crashed"
            /\ failed' = "sum_payments"
    /\ UNCHANGED <<f, payments, keys, header, count>>
    /\ UNCHANGED <<diskVars, now, runs, snap, refVars>>

\* ------------------------------------------------------ write_payments

\* what a copy that fails partway can leave behind
PartialCopies(lines) == {SubSeq(lines, 1, k) : k \in {0, 1} \cap 0..(Len(lines) - 1)}

\* variant that goes on without the copy
BackupSkipped ==
    /\ pc = "summed"
    /\ pc' = "backedup"
    /\ UNCHANGED <<f, payments, keys, new_payments, header, count, failed>>
    /\ UNCHANGED <<diskVars, now, runs, snap, refVars>>

\* shutil.copy2(path, backup)
BackupCopy ==
    /\ pc = "summed"
    /\ backup' = (f :> fs[f]) @@ backup
    /\ pc' = "backedup"
    /\ UNCHANGED <<f, payments, keys, new_payments, header, count, failed>>
    /\ UNCHANGED <<fs, mtime, checked, paylog, sent, now, runs, snap, refVars>>

\* shutil.copy2 raising: no copy, or a cut one
BackupFail ==
    /\ pc = "summed"
    /\ \/ backup' = backup
       \/ \E c \in PartialCopies(fs[f]) : backup' = (f :> c) @@ backup
    /\ pc' = "crashed"
    /\ failed' = "copy2"
    /\ UNCHANGED <<f, payments, keys, new_payments, header, count>>
    /\ UNCHANGED <<fs, mtime, checked, paylog, sent, now, runs, snap, refVars>>

\* header = read.read().splitlines()[0]
ReadHeader ==
    /\ pc = "backedup"
    /\ IF Len(fs[f]) > 0
       THEN /\ header' = fs[f][1]
            /\ pc' = "headerread"
            /\ failed' = failed
       ELSE /\ header' = header
            /\ pc' = "crashed"
            /\ failed' = "header"
    /\ UNCHANGED <<f, payments, keys, new_payments, count>>
    /\ UNCHANGED <<diskVars, now, runs, snap, refVars>>

\* open(path, 'w') truncates the file
OpenWrite ==
    /\ pc = "headerread"
    /\ fs' = [fs EXCEPT ![f] = <<>>]
    /\ mtime' = [mtime EXCEPT ![f] = now]
    /\ pc' = "open"
    /\ UNCHANGED <<f, payments, keys, new_payments, header, count, failed>>
    /\ UNCHANGED <<checked, paylog, backup, sent, now, runs, snap, refVars>>

\* write.write('{}\n'.format(header))
WriteHeader ==
    /\ pc = "open"
    /\ fs' = [fs EXCEPT ![f] = Append(@, header)]
    /\ pc' = "writing"
    /\ UNCHANGED <<f, payments, keys, new_payments, header, count, failed>>
    /\ UNCHANGED <<mtime, checked, paylog, backup, sent, now, runs, snap, refVars>>

\* one turn of "for payment in new_payments": its values in the order of
\* __dict__, then count += 1.  The file is shown as the text handed to write()
\* so far; a run that dies leaves a prefix of it on disk
WritePayment ==
    /\ pc = "writing"
    /\ count < Len(new_payments)
    /\ fs' = [fs EXCEPT ![f] = @ \o PaymentLines(new_payments[count + 1])]
    /\ count' = count + 1
    /\ UNCHANGED <<pc, f, payments, keys, new_payments, header, failed>>
    /\ UNCHANGED <<mtime, checked, paylog, backup, sent, now, runs, snap, refVars>>

\* the end of the with block
CloseFile ==
    /\ pc = "writing"
    /\ count = Len(new_payments)
    /\ pc' = "closed"
    /\ UNCHANGED <<f, payments, keys, new_payments, header, count, failed>>
    /\ UNCHANGED <<diskVars, now, runs, snap, refVars>>

\* already_checked.write('{}\n'.format(path))
AppendChecked ==
    /\ pc = "closed"
    /\ checked' = Append(checked, f)
    /\ pc' = "logged"
    /\ UNCHANGED <<f, payments, keys, new_payments, header, count, failed>>
    /\ UNCHANGED <<fs, mtime, paylog, backup, sent, now, runs, snap, refVars>>

\* log.write(success_string), and the return
AppendPayLog ==
    /\ pc = "logged"
    /\ paylog' = Append(paylog, [kind |-> "success", count |-> count,
                                 total |-> Len(new_payments), path |-> f])
    /\ pc' = "returned"
    /\ UNCHANGED <<f, payments, keys, new_payments, header, count, failed>>
    /\ UNCHANGED <<fs, mtime, checked, backup, sent, now, runs, snap, refVars>>

SendEmail ==
    /\ pc = "returned"
    /\ sent' = Append(sent, [subject |-> f, body |-> paylog[Len(paylog)]])
    /\ pc' = "done"
    /\ UNCHANGED <<f, payments, keys, new_payments, header, count, failed>>
    /\ UNCHANGED <<fs, mtime, checked, paylog, backup, now, runs, snap, refVars>>

\* the steps of write_payments and send_email that touch a file or the network
IOSteps == {"backedup", "headerread", "open", "writing", "closed", "logged", "returned"}

\* such a step raising OSError: nothing catches it and the run ends
IOError ==
    /\ pc \in IOSteps
    /\ failed' = pc
    /\ pc' = "crashed"
    /\ UNCHANGED <<f, payments, keys, new_payments, header, count>>
    /\ UNCHANGED <<diskVars, now, runs, snap, refVars>>

\* ------------------------------------------------------- between runs

Ended == pc \in {"done", "crashed", "exited"}

\* the next scheduled start of the script
StartRun ==
    /\ Ended
    /\ runs < MaxRuns
    /\ runs' = runs + 1
    /\ pc' = "start"
    /\ f' = NoPath
    /\ payments' = <<>>
    /\ keys' = <<>>
    /\ new_payments' = <<>>
    /\ header' = <<>>
    /\ count' = 0
    /\ failed' = ""
    /\ snap' = [fs |-> fs, checked |-> checked, backup |-> backup]
    /\ UNCHANGED <<diskVars, now, refVars>>

\* the time between two runs: one more window's length goes by
Tick ==
    /\ Ended
    /\ now < MaxTicks * Window
    /\ now' = now + Window
    /\ UNCHANGED <<runVars, diskVars, runs, snap, refVars>>

\* ------------------------------------------------------- input files

\* a field as it stands in a BPY331 file: quoted, one blank after the quote
OnDisk(body) == <<Q>> \o body \o <<Q, SP>>

\* the 29 lines of one record; r gives the lines create_payments reads and the
\* payee name of line 5, the other lines hold the usual boilerplate
DiskRecord(r) ==
    [n \in 1..BlockSize |->
        CASE n - 1 = 1 -> r.batch
          [] n - 1 = 2 -> r.posting
          [] n - 1 = 3 -> r.ref
          [] n - 1 = 5 -> r.payee
          [] n - 1 = 6 -> r.address
          [] n - 1 = 7 -> r.claim
          [] n - 1 = 10 -> r.amount
          [] n - 1 = 15 -> r.sort
          [] n - 1 = 16 -> r.num
          [] n - 1 = 17 -> r.name
          [] n - 1 = 18 -> r.bsn
          [] OTHER -> Append(Defaults[FieldOrder[n]], SP)]

HeaderLine == <<Q, "BPY331", Q, SP, Q, "1487931", Q>>

\* a bank payment (building society number 0)
RecA ==
    [batch |-> OnDisk(<<"1487931">>), posting |-> OnDisk(<<"P", "1">>),
     ref |-> OnDisk(<<"R", "1">>), payee |-> OnDisk(<<"MRS RV O'DRISCROLL">>),
     address |-> OnDisk(<<"1 HIGH STREET">>), claim |-> OnDisk(<<"C", "1">>),
     amount |-> OnDisk(<<"5", "3", "5", ".", "7", "1">>),
     sort |-> OnDisk(<<"4", "0", "-", "3", "5", "-", "0", "3">>),
     num |-> OnDisk(<<"1", "2", "3", "4", "5", "6", "7", "8">>),
     name |-> OnDisk(<<"RV O'DRISCROLL">>), bsn |-> BankLiteral]

\* a second payment into the same account
RecB ==
    [RecA EXCEPT !.posting = OnDisk(<<"P", "2">>), !.ref = OnDisk(<<"R", "2">>),
                 !.claim = OnDisk(<<"C", "2">>),
                 !.address = OnDisk(<<"2 LOW STREET">>),
                 !.amount = OnDisk(<<"2", "3", "2", ".", "5", "7">>)]

\* a building society payment
RecC ==
    [RecA EXCEPT !.posting = OnDisk(<<"P", "3">>), !.ref = OnDisk(<<"R", "3">>),
                 !.claim = OnDisk(<<"C", "3">>),
                 !.payee = OnDisk(<<"J BROWN">>), !.name = OnDisk(<<"J BROWN">>),
                 !.amount = OnDisk(<<"3", "0", "2", "5", ".", "0", "0">>),
                 !.bsn = OnDisk(<<"7">>)]

RECURSIVE FileOf(_)
FileOf(recs) ==
    IF Len(recs) = 0 THEN <<HeaderLine>>
    ELSE FileOf(SubSeq(recs, 1, Len(recs) - 1)) \o DiskRecord(recs[Len(recs)])

\* a file cut short by k lines
CutShort(lines, k) == SubSeq(lines, 1, Len(lines) - k)

F1 == <<"bpy331_", "1487931_7163.1", ".dat">>
F2 == <<"bpy331_", "1487932_7164.1", ".dat">>
F3 == <<"notes", ".txt">>

\* the contents tried for the first file: whole files, a one-record file cut
\* short by every number of lines, and an empty file
WholeFiles ==
    {FileOf(<<>>), FileOf(<<RecA>>), FileOf(<<RecA, RecB>>), FileOf(<<RecA, RecC>>)}
CutFiles == {CutShort(FileOf(<<RecA>>), k) : k \in 1..(BlockSize - 1)}
Contents == WholeFiles \cup CutFiles \cup {<<>>}

Init ==
    /\ \E c \in Contents :
          fs = (F1 :> c) @@ (F2 :> FileOf(<<RecC>>)) @@ (F3 :> <<HeaderLine>>)
    /\ \E t1 \in {0 - Window, 0}, t2 \in {0 - Window, 0 - 1, 0} :
          mtime = (F1 :> t1) @@ (F2 :> t2) @@ (F3 :> 0)
    /\ now = 0
    /\ checked \in {<<>>, <<F2>>, <<F1, F1>>}
    /\ paylog = <<>>
    /\ backup = <<>>
    /\ sent = <<>>
    /\ pc = "start"
    /\ f = NoPath
    /\ payments = <<>>
    /\ keys = <<>>
    /\ new_payments = <<>>
    /\ header = <<>>
    /\ count = 0
    /\ failed = ""
    /\ runs = 1
    /\ snap = [fs |-> fs, checked |-> checked, backup |-> backup]
    /\ sort_in = <<>> /\ acct_in = <<>> /\ ref_out = <<>> /\ num_out = <<>>
    /\ ver_out = "unset"

Next ==
    \/ LoadFiles \/ LogMarker
    \/ CreatePayments \/ CreateKeys \/ AssignKeys \/ SumPayments
    \/ BackupCopy \/ BackupFail \/ ReadHeader \/ OpenWrite \/ WriteHeader
    \/ WritePayment \/ CloseFile \/ AppendChecked \/ AppendPayLog \/ SendEmail
    \/ IOError \/ StartRun \/ Tick

Spec == Init /\ [][Next]_vars

\* ------------------------------------------- one run over varied records

\* a building society number without the blank after the quote
RecC7Bare == [RecC EXCEPT !.bsn = <<Q, "7", Q>>,
                          !.amount = OnDisk(<<"1", "4", "3", ".", "0", "8">>)]
\* another building society, same original reference, no blank after the quote
RecC8Bare == [RecC EXCEPT !.bsn = <<Q, "8", Q>>,
                          !.amount = OnDisk(<<"0", ".", "0", "5">>)]
\* a bank payment whose building society number has the blank inside the quotes
RecA0Inner == [RecA EXCEPT !.bsn = <<Q, "0", SP, Q>>,
                           !.amount = OnDisk(<<"4", "0", "9", "5", ".", "0", "0">>)]
\* a bank payment into another account
RecD ==
    [RecA EXCEPT !.posting = OnDisk(<<"P", "4">>), !.ref = OnDisk(<<"R", "4">>),
                 !.claim = OnDisk(<<"C", "4">>),
                 !.payee = OnDisk(<<"BROADACRES HOUSING ASSOCIATION">>),
                 !.name = OnDisk(<<"BROADACRES">>),
                 !.sort = OnDisk(<<"2", "0", "0", "0", "0", "0">>),
                 !.num = OnDisk(<<"2", "7", "3", "4", "5", "6", "7", "8">>),
                 !.amount = OnDisk(<<"1", "5", "0", "3", ".", "3", "3">>)]
\* an amount that is no number, and a sort code that is no number
RecBadAmount == [RecB EXCEPT !.amount = OnDisk(<<"amount">>)]
RecBadSort == [RecD EXCEPT !.sort = OnDisk(<<"4", "O", "-", "3", "5", "-", "0", "3">>)]

DataRecords ==
    {RecA, RecB, RecC, RecC7Bare, RecC8Bare, RecA0Inner, RecD, RecBadAmount, RecBadSort}

InitData ==
    /\ \E n \in 0..MaxRecords : \E recs \in [1..n -> DataRecords] :
          fs = (F1 :> FileOf(recs))
    /\ mtime = (F1 :> 0)
    /\ now = 0
    /\ checked = <<>>
    /\ paylog = <<>>
    /\ backup = <<>>
    /\ sent = <<>>
    /\ pc = "start"
    /\ f = NoPath
    /\ payments = <<>>
    /\ keys = <<>>
    /\ new_payments = <<>>
    /\ header = <<>>
    /\ count = 0
    /\ failed = ""
    /\ runs = 1
    /\ snap = [fs |-> fs, checked |-> checked, backup |-> backup]
    /\ sort_in = <<>> /\ acct_in = <<>> /\ ref_out = <<>> /\ num_out = <<>>
    /\ ver_out = "unset"

NextData ==
    \/ LoadFiles
    \/ CreatePayments \/ CreateKeys \/ AssignKeys \/ SumPayments
    \/ BackupCopy \/ ReadHeader \/ OpenWrite \/ WriteHeader
    \/ WritePayment \/ CloseFile \/ AppendChecked \/ AppendPayLog \/ SendEmail

SpecData == InitData /\ [][NextData]_vars

\* ------------------------------------------------- check digit alone

\* a six-digit sort code, plain or hyphen-grouped
PlainSort(d) == [i \in 1..6 |-> Digits[d[i] + 1]]
HyphenSort(d) ==
    <<Digits[d[1] + 1], Digits[d[2] + 1], "-", Digits[d[3] + 1], Digits[d[4] + 1],
      "-", Digits[d[5] + 1], Digits[d[6] + 1]>>

\* the example of test_first_check_digit
WikiNumber == <<"7", "9", "9", "2", "7", "3", "9", "8", "7", "1">>
PaymentSort == HyphenSort(<<4, 0, 3, 5, 0, 3>>)

\* an eight-digit account number with the given first two digits
AcctWithPrefix(a, b) == <<Digits[a + 1], Digits[b + 1], "3", "4", "5", "6", "7", "8">>

\* the sort codes tried: every digit in places 2 to 6 with these first digits,
\* and hyphen-grouped codes over these digits
LeadDigits == {0, 4, 9}
HyphenDigits == {0, 3, 4, 5, 9}

idleRun ==
    /\ fs = <<>> /\ mtime = <<>> /\ now = 0 /\ checked = <<>> /\ paylog = <<>>
    /\ backup = <<>> /\ sent = <<>> /\ f = NoPath /\ payments = <<>> /\ keys = <<>>
    /\ new_payments = <<>> /\ header = <<>> /\ count = 0
    /\ failed = "" /\ runs = 0 /\ snap = <<>>

InitRef ==
    /\ idleRun
    /\ pc = "ref"
    /\ \/ /\ \/ \E d \in [1..6 -> 0..9] :
                    d[1] \in LeadDigits /\ sort_in = PlainSort(d)
             \/ \E d \in [1..6 -> HyphenDigits] : sort_in = HyphenSort(d)
          /\ acct_in = AcctWithPrefix(1, 2)
       \/ /\ sort_in \in {WikiNumber, PaymentSort}
          /\ \E a, b \in 0..9 : acct_in = AcctWithPrefix(a, b)
    /\ ref_out = <<>>
    /\ num_out = <<>>
    /\ ver_out = "unset"

\* a call of gen_account_ref
GenAccountRef ==
    /\ pc = "ref"
    /\ ref_out = <<>>
    /\ ref_out' = gen_account_ref(sort_in, acct_in)
    /\ UNCHANGED <<runVars, diskVars, now, runs, snap, sort_in, acct_in, num_out, ver_out>>

\* the body of a test of TestCheckdigits
TestCheckDigit ==
    /\ pc = "ref"
    /\ ref_out # <<>>
    /\ num_out = <<>>
    /\ num_out' = generate_check_digit(sort_in)
    /\ ver_out' = verify_check_digit(num_out')
    /\ UNCHANGED <<runVars, diskVars, now, runs, snap, sort_in, acct_in, ref_out>>

NextRef == GenAccountRef \/ TestCheckDigit

SpecRef == InitRef /\ [][NextRef]_vars

\* ---------------------------------------------------------------------
\* C7: for every six-digit sort code, plain or hyphen-grouped, the check digit
\* gen_account_ref appends is one digit, the same digit generate_check_digit
\* appends, and the sort-code digits followed by it pass verify_check_digit;
\* the check digit of 7992739871 is 3 and that of 40-35-03 is 6.
C7_CheckDigit ==
    (pc = "ref" /\ num_out # <<>>) =>
        LET cd == ref_out[Len(ref_out) - 1]
        IN /\ Len(ref_out) = Len(acct_in) + 2
           /\ cd \in DigitChars
           /\ cd = num_out[Len(num_out)]
           /\ ver_out = TRUE
           /\ verify_check_digit(Remove(sort_in, {"-"}) \o <<cd>>)
           /\ sort_in = WikiNumber => cd = "3"
           /\ sort_in = PaymentSort => cd = "6"

C7_Witness ==
    /\ pc = "ref"
    /\ sort_in = PaymentSort
    /\ num_out = <<"4", "0", "3", "5", "0", "3", "6">>
    /\ ref_out[Len(ref_out) - 1] = "6"
    /\ ver_out = TRUE

\* C8: the letter gen_account_ref derives from the first two digits of the
\* account number is 'A' for 00, 'A' for 26 and 'B' for 27.
C8_Letters ==
    (pc = "ref" /\ ref_out # <<>>) =>
        /\ Take2(acct_in) = <<"0", "0">> => ref_out[2] = "A"
        /\ Take2(acct_in) = <<"2", "6">> => ref_out[2] = "A"
        /\ Take2(acct_in) = <<"2", "7">> => ref_out[2] = "B"

\* ---------------------------------------------------------------------
\* C3: in every state of a run the source file holds either its complete
\* original contents or the complete new contents (the header and every
\* aggregate), whatever step fails.
C3_AllOrNothing ==
    (pc # "ref" /\ f # NoPath) =>
        \/ fs[f] = snap.fs[f]
        \/ /\ Len(snap.fs[f]) > 0
           /\ pc \in IOSteps \cup {"done", "crashed"}
           /\ fs[f] = <<snap.fs[f][1]>> \o AllLines(new_payments)

\* ---------------------------------------------------------------------
\* C4: once write_payments has logged a file its path is in
\* already_checked.log and stays there; a run that starts with every file that
\* passes the name and time tests already in the log (once or several times)
\* selects no file, and ends through the no-eligible-file exit without touching
\* the directory, the archive or already_checked.log.
C4_Idempotent ==
    /\ [](pc \in {"logged", "returned", "done"} => f \in Range(checked))
    /\ [][/\ \A p \in Range(checked) : p \in Range(checked')
          /\ (pc = "start" /\ Candidates \subseteq Range(checked)) =>
                 (pc' = "noeligible" /\ f' = NoPath /\ UNCHANGED <<fs, backup, checked>>)
          /\ pc = "noeligible" =>
                 (pc' = "exited" /\ f' = NoPath /\ UNCHANGED <<fs, backup, checked>>)
       ]_vars

\* a second run that found the file rewritten by the first as the only candidate
C4_Witness ==
    /\ pc = "exited"
    /\ runs = 2
    /\ \E i \in DOMAIN paylog :
          /\ paylog[i].kind = "success"
          /\ Candidates = {paylog[i].path}
          /\ paylog[i].path \in Range(checked)
          /\ fs = snap.fs

\* ---------------------------------------------------------------------
\* C5: a file whose line count after the header is not a positive multiple of
\* 29 makes create_payments fail, and the run rewrites nothing, copies nothing
\* to the archive and logs nothing in already_checked.log.
Malformed(lines) ==
    Len(lines) >= 1 /\ ~(Len(lines) - 1 > 0 /\ (Len(lines) - 1) % BlockSize = 0)

C5_MalformedRejected ==
    (pc # "ref" /\ f # NoPath /\ Malformed(snap.fs[f])) =>
        /\ pc \in {"loaded", "crashed"}
        /\ pc = "crashed" => failed = "create_payments"
        /\ fs = snap.fs /\ backup = snap.backup /\ checked = snap.checked

\* ---------------------------------------------------------------------
\* C10: whenever the source file differs from what it held when the run
\* started, the archive holds a verbatim copy of what it held then; and when
\* the copy fails the source file is unchanged and already_checked.log is too.
C10_BackupFirst ==
    (pc # "ref" /\ f # NoPath) =>
        /\ fs[f] # snap.fs[f] =>
               (f \in DOMAIN backup /\ backup[f] = snap.fs[f])
        /\ failed = "copy2" => (fs = snap.fs /\ checked = snap.checked)

\* the run died while writing: the file is cut, the archive has the original
C10_Witness ==
    /\ pc = "crashed"
    /\ failed = "writing"
    /\ fs[f] # snap.fs[f]
    /\ Len(fs[f]) < Len(snap.fs[f])
    /\ backup[f] = snap.fs[f]

\* ---------------------------------------------------------------------
\* the vocabulary of the claims about grouping

\* a value with its quotes removed and the blanks around it stripped
RECURSIVE TrimLeft(_)
TrimLeft(s) == IF Len(s) > 0 /\ s[1] = SP THEN TrimLeft(Tail(s)) ELSE s
Norm(s) == Reverse(TrimLeft(Reverse(TrimLeft(Remove(s, {Q})))))

\* the payments, by position in the input, that the dict files under one key
RECURSIVE SumPence(_)
SumPence(J) ==
    IF J = {} THEN 0
    ELSE LET j == CHOOSE x \in J : TRUE
         IN Pence(payments[j].amount) + SumPence(J \ {j})
First(J) == CHOOSE j \in J : \A k \in J : j <= k
Positions(i) == {j \in DOMAIN payments : payments[j] \in Range(keys[i].val)}

CopiedFields ==
    {"batch_run_id", "posting_ref", "account_ref", "claim_ref", "payee_name",
     "payee_address", "bank_sort_code", "bank_account_num", "bank_account_name",
     "building_society_num"}

\* C1: sum_payments returns one aggregate per group; its amount, read in pence,
\* is the sum of the members' amounts and is written with two decimals; every
\* other parsed field is that of the group's first member in input order; a
\* group of one member gives an aggregate with that member's amount.
C1_Aggregates ==
    (pc = "summed") =>
        /\ Len(new_payments) = Len(keys)
        /\ \A i \in DOMAIN keys :
              LET J == Positions(i)
                  agg == new_payments[i]
                  text == Remove(agg.amount, {Q, SP})
              IN /\ J # {}
                 /\ Len(keys[i].val) = Cardinality(J)
                 /\ IsAmount(agg.amount)
                 /\ Len(FracPart(text)) = 2
                 /\ agg.amount = <<Q>> \o text \o <<Q>>
                 /\ Pence(agg.amount) = SumPence(J)
                 /\ \A k \in CopiedFields : agg[k] = payments[First(J)][k]
                 /\ Cardinality(J) = 1 =>
                        Pence(agg.amount) = Pence(payments[First(J)].amount)

\* a group of two members that differ in a copied field, and a group of one
C1_Witness ==
    /\ pc = "summed"
    /\ \E i, k \in DOMAIN keys :
          /\ Len(keys[i].val) = 2
          /\ keys[i].val[1].posting_ref # keys[i].val[2].posting_ref
          /\ new_payments[i].amount = <<Q, "7", "6", "8", ".", "2", "8", Q>>
          /\ Len(keys[k].val) = 1

\* ---------------------------------------------------------------------
\* C2: two payments of a run are put in the same group exactly when their
\* account references are equal after normalisation and their building society
\* numbers are equal after normalisation.
C2_GroupIff ==
    (pc = "assigned") =>
        \A j, k \in DOMAIN payments :
            (\E i \in DOMAIN keys : {j, k} \subseteq Positions(i))
            <=> /\ Norm(payments[j].account_ref) = Norm(payments[k].account_ref)
                /\ Norm(payments[j].building_society_num)
                     = Norm(payments[k].building_society_num)

\* ---------------------------------------------------------------------
\* C6: a parsed payment keeps the account and claim reference of its record
\* when its building society number, normalised, is not 0, and gets the
\* computed reference in both fields when it is 0.
C6_RefRule ==
    (pc = "parsed") =>
        \A b \in DOMAIN payments :
            LET i == 1 + (b - 1) * BlockSize
                p == payments[b]
                computed == gen_account_ref(Remove(p.bank_sort_code, {Q, SP}),
                                            Remove(p.bank_account_num, {Q, SP}))
            IN IF Norm(p.building_society_num) = <<"0">>
               THEN p.account_ref = computed /\ p.claim_ref = computed
               ELSE /\ p.account_ref = At(fs[f], i + 3)
                    /\ p.claim_ref = At(fs[f], i + 7)

\* ---------------------------------------------------------------------
\* C9: parsing the rewritten file again gives one payment per written
\* aggregate, equal to it in every field the parser reads and in account_ref
\* and claim_ref; the rewritten file has 29 lines per aggregate after the header.
ReadBack ==
    CopiedFields \cup {"amount"}

C9_RoundTrip ==
    (pc \in {"closed", "logged", "returned", "done"}) =>
        /\ Len(fs[f]) = 1 + BlockSize * Len(new_payments)
        /\ ParseOk(fs[f])
        /\ LET back == create_payments(fs[f])
           IN /\ Len(back) = Len(new_payments)
              /\ \A i \in DOMAIN back : \A k \in ReadBack :
                    back[i][k] = new_payments[i][k]

\* two aggregates written, one with a computed reference and one with a kept one
C9_Witness ==
    /\ pc = "closed"
    /\ Len(new_payments) = 2
    /\ new_payments[1].building_society_num = BankLiteral
    /\ new_payments[2].building_society_num # BankLiteral
    /\ create_payments(fs[f])[2].account_ref = RecC.ref

\* ---------------------------------------------------------------------
\* the input positions whose key is that of the i-th dict item, and the
\* payments at a set of positions in input order
WithKey(i) == {j \in DOMAIN payments : PaymentKey(payments[j]) = keys[i].key}
RECURSIVE InOrder(_)
InOrder(J) ==
    IF J = {} THEN <<>> ELSE <<payments[First(J)]>> \o InOrder(J \ {First(J)})

\* C11: every input payment is in exactly one group, once, so the group sizes
\* add up to the number of payments; there are as many aggregates as distinct
\* keys in the input, their keys are pairwise distinct and they come in the
\* order in which their keys first occur; the aggregate amounts add up to the
\* input amounts (in pence).
C11_Conservation ==
    (pc = "summed") =>
        /\ \A j \in DOMAIN payments :
              Cardinality({i \in DOMAIN keys : j \in WithKey(i)}) = 1
        /\ \A i \in DOMAIN keys : keys[i].val = InOrder(WithKey(i))
        /\ SumSeq([i \in DOMAIN keys |-> Len(keys[i].val)]) = Len(payments)
        /\ Len(new_payments)
             = Cardinality({PaymentKey(payments[j]) : j \in DOMAIN payments})
        /\ \A i, k \in DOMAIN new_payments :
              i < k => /\ PaymentKey(new_payments[i]) # PaymentKey(new_payments[k])
                       /\ PaymentKey(new_payments[i]) = keys[i].key
                       /\ First(WithKey(i)) < First(WithKey(k))
        /\ SumSeq([i \in DOMAIN new_payments |-> Pence(new_payments[i].amount)])
             = SumPence(DOMAIN payments)

\* three payments in two groups, the first group's members apart in the input
C11_Witness ==
    /\ pc = "summed"
    /\ Len(payments) = 3
    /\ Len(keys) = 2
    /\ PaymentKey(payments[1]) = PaymentKey(payments[3])
    /\ PaymentKey(payments[1]) # PaymentKey(payments[2])
    /\ Len(keys[1].val) = 2
    /\ payments[1].amount # payments[3].amount

====
